---------------------------- MODULE Spec2Model ----------------------------
(***************************************************************************)
(* Model of the HubSpot <-> Monday.com synchronisation server              *)
(* (src/server.js).  The two remote stores are sequences of records, a     *)
(* record's remote id being its position.  Every `await` of the code is a  *)
(* step boundary: a remote call is issued in one step and resolved (with   *)
(* its effect on the store, or with an error) in a later one.  JavaScript  *)
(* null / undefined / '' are all falsy and are written "" here.            *)
(***************************************************************************)
EXTENDS Integers, Sequences, FiniteSets, TLC

(***************************** bounds **************************************)
MaxTasks == 2       \* async chains that may be in flight at once
MaxTriggers == 2    \* trigger requests (POST /sync, cron, webhooks) per run
MaxAdmin == 2       \* POST /enable, /disable, /rules requests per run
MaxFail == 1        \* remote calls that fail per run
MaxLen == 2         \* records in one initial store
MaxTotal == 3       \* records in both initial stores together
MaxPasses == 2      \* one-direction passes run in succession

(***************************** program constants ***************************)
LogCap == 50
HubSpotLimit == 100

Keys == {"k1", "k2"}
Fields == {"title", "description", "status", "priority"}
Platforms == {"hubspot", "monday", "both"}
ColumnIds == {"text", "status", "priority"}

\* faulty variant of fieldMapping: a mapping other than the default one
fieldMapping_Swapped == [description |-> "status", status |-> "text", priority |-> "priority"]

fieldMapping == [description |-> "text", status |-> "status", priority |-> "priority"]

defaultFieldRules ==
  [title |-> "hubspot", description |-> "hubspot", status |-> "monday", priority |-> "monday"]

(***************************** JavaScript helpers **************************)
EmptyMap == [x \in {} |-> ""]

\* obj[k] = v on an object literal
Put(m, k, v) == [x \in (DOMAIN m) \cup {k} |-> IF x = k THEN v ELSE m[x]]

\* v || d
OrElse(v, d) == IF v # "" THEN v ELSE d

\* col?.text of item.column_values.find(col => col.id === id)
ColText(item, id) ==
  IF id \in DOMAIN item.column_values THEN item.column_values[id] ELSE ""

(***************************** reading a source record *********************)
TicketData(ticket) ==
  [subject |-> ticket.subject, content |-> ticket.content,
   status |-> ticket.hs_pipeline_stage, priority |-> ticket.hs_ticket_priority]

\* faulty variant of ItemData: the column texts are passed on as they are
ItemData_NoDefaults(item) ==
  [subject |-> item.name,
   content |-> ColText(item, fieldMapping.description),
   status |-> ColText(item, fieldMapping.status),
   priority |-> ColText(item, fieldMapping.priority)]

ItemData(item) ==
  [subject |-> item.name,
   content |-> OrElse(ColText(item, fieldMapping.description), ""),
   status |-> OrElse(ColText(item, fieldMapping.status), "new"),
   priority |-> OrElse(ColText(item, fieldMapping.priority), "MEDIUM")]

SourceData(dir, rec) == IF dir = "h2m" THEN TicketData(rec) ELSE ItemData(rec)

SourcePlatform(dir) == IF dir = "h2m" THEN "hubspot" ELSE "monday"

(***************************** the target index ****************************)
\* faulty variant of BuildMap: a key already in the map is not set again, so
\* the first record with it is kept
BuildMap_FirstWins(keyOf) ==
  [k \in {keyOf[j] : j \in 1..Len(keyOf)} |->
     CHOOSE j \in 1..Len(keyOf) :
       keyOf[j] = k /\ \A earlier \in 1..(j - 1) : keyOf[earlier] # k]

\* new Map(); records.forEach(r => map.set(key(r), r)): a later record with
\* the same key replaces the earlier one, so the map holds, for each key, the
\* last record with it.  The value kept is the record's id.
BuildMap(keyOf) ==
  [k \in {keyOf[j] : j \in 1..Len(keyOf)} |->
     CHOOSE j \in 1..Len(keyOf) :
       keyOf[j] = k /\ \A later \in (j + 1)..Len(keyOf) : keyOf[later] # k]

MondayMap(mondayItems) ==
  BuildMap([j \in 1..Len(mondayItems) |-> mondayItems[j].name])

HubSpotMap(hubspotTickets) ==
  BuildMap([j \in 1..Len(hubspotTickets) |-> hubspotTickets[j].subject])

\* faulty variant of MapGet: the index is asked for a key it never holds
MapGet_WrongKey(m, key) == 0

\* map.get(key): the id of the record kept for key, 0 when there is none
MapGet(m, key) == IF key \in DOMAIN m THEN m[key] ELSE 0

(***************************** the update field set ************************)
Pulls(rules, field, platform) == rules[field] = platform \/ rules[field] = "both"

\* faulty variant of UpdateData: the status test was copied from the other direction
UpdateData_StatusByMonday(rules, platform, data) ==
  LET u1 == IF Pulls(rules, "title", platform)
            THEN Put(EmptyMap, "subject", data.subject) ELSE EmptyMap
      u2 == IF Pulls(rules, "description", platform)
            THEN Put(u1, "content", data.content) ELSE u1
      u3 == IF Pulls(rules, "status", "monday")
            THEN Put(u2, "status", data.status) ELSE u2
      u4 == IF Pulls(rules, "priority", platform)
            THEN Put(u3, "priority", data.priority) ELSE u3
  IN u4

UpdateData(rules, platform, data) ==
  LET u1 == IF Pulls(rules, "title", platform)
            THEN Put(EmptyMap, "subject", data.subject) ELSE EmptyMap
      u2 == IF Pulls(rules, "description", platform)
            THEN Put(u1, "content", data.content) ELSE u1
      u3 == IF Pulls(rules, "status", platform)
            THEN Put(u2, "status", data.status) ELSE u2
      u4 == IF Pulls(rules, "priority", platform)
            THEN Put(u3, "priority", data.priority) ELSE u3
  IN u4

(***************************** request payloads ****************************)
\* faulty variant of CreateColumnValues: the priority column is forgotten
CreateColumnValues_NoPriority(ticketData) ==
  LET c1 == IF ticketData.content # "" /\ fieldMapping.description # ""
            THEN Put(EmptyMap, fieldMapping.description, ticketData.content) ELSE EmptyMap
      c2 == IF ticketData.status # "" /\ fieldMapping.status # ""
            THEN Put(c1, fieldMapping.status, ticketData.status) ELSE c1
  IN c2

\* createMondayItem: a column is sent only when its value is truthy
CreateColumnValues(ticketData) ==
  LET c1 == IF ticketData.content # "" /\ fieldMapping.description # ""
            THEN Put(EmptyMap, fieldMapping.description, ticketData.content) ELSE EmptyMap
      c2 == IF ticketData.status # "" /\ fieldMapping.status # ""
            THEN Put(c1, fieldMapping.status, ticketData.status) ELSE c1
      c3 == IF ticketData.priority # "" /\ fieldMapping.priority # ""
            THEN Put(c2, fieldMapping.priority, ticketData.priority) ELSE c2
  IN c3

\* updateMondayItem: a column is sent when the field is provided; subject is never sent
UpdateColumnValues(updateData) ==
  LET c1 == IF "content" \in DOMAIN updateData /\ fieldMapping.description # ""
            THEN Put(EmptyMap, fieldMapping.description, updateData["content"]) ELSE EmptyMap
      c2 == IF "status" \in DOMAIN updateData /\ fieldMapping.status # ""
            THEN Put(c1, fieldMapping.status, updateData["status"]) ELSE c1
      c3 == IF "priority" \in DOMAIN updateData /\ fieldMapping.priority # ""
            THEN Put(c2, fieldMapping.priority, updateData["priority"]) ELSE c2
  IN c3

\* createHubSpotTicket: all four properties, status and priority defaulted
CreateProperties(data) ==
  [subject |-> data.subject, content |-> data.content,
   hs_pipeline_stage |-> OrElse(data.status, "new"),
   hs_ticket_priority |-> OrElse(data.priority, "MEDIUM")]

\* faulty variant of UpdateProperties: the stage is defaulted as in createHubSpotTicket
UpdateProperties_DefaultsStage(data) ==
  LET p1 == IF "subject" \in DOMAIN data
            THEN Put(EmptyMap, "subject", data["subject"]) ELSE EmptyMap
      p2 == IF "content" \in DOMAIN data
            THEN Put(p1, "content", data["content"]) ELSE p1
      p3 == Put(p2, "hs_pipeline_stage",
                IF "status" \in DOMAIN data THEN data["status"] ELSE "new")
      p4 == IF "priority" \in DOMAIN data
            THEN Put(p3, "hs_ticket_priority", data["priority"]) ELSE p3
  IN p4

\* updateHubSpotTicket: only the properties that are provided
UpdateProperties(data) ==
  LET p1 == IF "subject" \in DOMAIN data
            THEN Put(EmptyMap, "subject", data["subject"]) ELSE EmptyMap
      p2 == IF "content" \in DOMAIN data
            THEN Put(p1, "content", data["content"]) ELSE p1
      p3 == IF "status" \in DOMAIN data
            THEN Put(p2, "hs_pipeline_stage", data["status"]) ELSE p2
      p4 == IF "priority" \in DOMAIN data
            THEN Put(p3, "hs_ticket_priority", data["priority"]) ELSE p3
  IN p4

(***************************** the remote stores ***************************)
\* create_item: the columns sent are set, the others are empty
MondayCreate(items, itemName, columnValues) ==
  Append(items, [name |-> itemName,
                 column_values |-> [c \in ColumnIds |->
                    IF c \in DOMAIN columnValues THEN columnValues[c] ELSE ""]])

\* change_multiple_column_values: the columns sent are set, the others kept
MondayUpdate(items, itemId, columnValues) ==
  [items EXCEPT ![itemId].column_values =
     [c \in ColumnIds |-> IF c \in DOMAIN columnValues THEN columnValues[c] ELSE @[c]]]

\* POST /crm/v3/objects/tickets
HubSpotCreate(tickets, properties) == Append(tickets, properties)

\* PATCH /crm/v3/objects/tickets/{id}: the properties sent are set, the others kept
HubSpotUpdate(tickets, ticketId, properties) ==
  [tickets EXCEPT ![ticketId] =
     [p \in DOMAIN @ |-> IF p \in DOMAIN properties THEN properties[p] ELSE @[p]]]

\* GET /crm/v3/objects/tickets with limit: 100 and no paging cursor: the first
\* page of tickets, oldest first
GetHubSpotTickets(tickets) ==
  SubSeq(tickets, 1, IF Len(tickets) < HubSpotLimit THEN Len(tickets) ELSE HubSpotLimit)

\* boards { items_page { items } }: the page the board returns, taken to hold
\* every item
GetMondayItems(items) == items

(***************************** state ***************************************)
VARIABLES
  hubspotToken,   \* config.hubspotToken, "" when not configured
  mondayToken,    \* config.mondayToken
  mondayBoardId,  \* config.mondayBoardId
  syncEnabled,  \* config.syncEnabled
  lastSync,     \* config.lastSync: 0 is null, n the n-th timestamp written
  syncLog,      \* config.syncLog, most recent entry first
  fieldRules,   \* config.fieldRules (title, description, status, priority)
  hubspot,      \* the tickets held by HubSpot
  monday,       \* the items held by the Monday board
  tasks,        \* the async chains in flight, each at its pending await
  timers,       \* pending setTimeout callbacks of the two webhooks
  passes,       \* history: every one-direction pass started
  ops,          \* history: every Create / Update issued and every Skip decided
  before,       \* history: the two stores as they were before the first pass
  nTrig,        \* trigger requests so far
  nAdmin,       \* admin requests so far
  nFail         \* remote calls failed so far

vars == <<hubspotToken, mondayToken, mondayBoardId, syncEnabled, lastSync, syncLog,
          fieldRules, hubspot, monday, tasks, timers, passes, ops, before, nTrig,
          nAdmin, nFail>>

credentials == <<hubspotToken, mondayToken, mondayBoardId>>

config == <<syncEnabled, lastSync, syncLog, fieldRules>>
remotes == <<hubspot, monday>>
counters == <<nTrig, nAdmin, nFail>>

TaskIds == 1..MaxTasks

IdleTask ==
  [kind |-> "none", dir |-> "none", pc |-> "idle", src |-> <<>>, map |-> EmptyMap,
   i |-> 0, created |-> 0, updated |-> 0, pass |-> 0, call |-> 0]

AllIdle == \A t \in TaskIds : tasks[t].pc = "idle"
NoTimers == timers.hubspot = 0 /\ timers.monday = 0

(***************************** logSync *************************************)
\* the timestamp is filled in by logSync
LogEntry(type, message, key, created, updated, fields) ==
  [timestamp |-> 0, type |-> type, message |-> message, key |-> key,
   created |-> created, updated |-> updated, fields |-> fields]

Note(type, message) == LogEntry(type, message, "", 0, 0, {})

\* new Date() of an entry: the clock never runs backwards, and an entry is
\* stamped with the ordinal of its append
Timestamp(log) == IF log = <<>> THEN 1 ELSE log[1].timestamp + 1

\* faulty variant of logSync: the oldest entry is never dropped
logSync_NoCap(log, logEntry) ==
  <<[logEntry EXCEPT !.timestamp = Timestamp(log)]>> \o log

\* unshift, then pop when the log has grown past its cap
logSync(log, logEntry) ==
  LET unshifted == <<[logEntry EXCEPT !.timestamp = Timestamp(log)]>> \o log
  IN IF Len(unshifted) > LogCap THEN SubSeq(unshifted, 1, Len(unshifted) - 1)
     ELSE unshifted

(***************************** one direction *******************************)
StartMessage(dir) ==
  IF dir = "h2m" THEN "Starting HubSpot -> Monday.com sync..."
  ELSE "Starting Monday.com -> HubSpot sync..."
CreatedMessage(dir) ==
  IF dir = "h2m" THEN "Created Monday item" ELSE "Created HubSpot ticket"
UpdatedMessage(dir) ==
  IF dir = "h2m" THEN "Updated Monday item" ELSE "Updated HubSpot ticket"
CompleteMessage(dir) ==
  IF dir = "h2m" THEN "HubSpot -> Monday sync complete" ELSE "Monday -> HubSpot sync complete"

\* The part of the state a step of a chain rewrites.
Frame(t) ==
  [task |-> tasks[t], log |-> syncLog, passes |-> passes, ops |-> ops,
   lastSync |-> lastSync]

Commit(t, st) ==
  /\ tasks' = [tasks EXCEPT ![t] = st.task]
  /\ syncLog' = st.log
  /\ passes' = st.passes
  /\ ops' = st.ops
  /\ lastSync' = st.lastSync

\* faulty variant of BeginDirection: the test of config.syncEnabled is missing
BeginDirection_NoGate(st, kind, dir) ==
  [st EXCEPT
     !.log = logSync(@, Note("info", StartMessage(dir))),
     !.task = [IdleTask EXCEPT !.kind = kind, !.dir = dir, !.pc = "fetchSrc",
                               !.pass = Len(st.passes) + 1],
     !.passes = Append(@, [dir |-> dir, kind |-> kind, after |-> st.task.pass,
                           outcome |-> "running", fetched |-> FALSE,
                                startRules |-> fieldRules, planRules |-> fieldRules,
                           src |-> <<>>, map |-> EmptyMap,
                           created |-> 0, updated |-> 0])]

\* syncHubSpotToMonday() / syncMondayToHubSpot() up to the first await
BeginDirection(st, kind, dir) ==
  IF ~syncEnabled THEN [st EXCEPT !.task = IdleTask]
  ELSE [st EXCEPT
          !.log = logSync(@, Note("info", StartMessage(dir))),
          !.task = [IdleTask EXCEPT !.kind = kind, !.dir = dir, !.pc = "fetchSrc",
                                    !.pass = Len(st.passes) + 1],
          !.passes = Append(@, [dir |-> dir, kind |-> kind, after |-> st.task.pass,
                                outcome |-> "running", fetched |-> FALSE,
                                startRules |-> fieldRules, planRules |-> fieldRules,
                                src |-> <<>>, map |-> EmptyMap,
                                created |-> 0, updated |-> 0])]

\* performFullSync: Monday -> HubSpot follows HubSpot -> Monday however it ended
EndDirection(st) ==
  IF st.task.kind = "full" /\ st.task.dir = "h2m"
  THEN BeginDirection(st, "full", "m2h")
  ELSE [st EXCEPT !.task = IdleTask]

\* faulty variant of Complete: the two counts change places in the summary
Complete_SwapsCounts(st) ==
  EndDirection([st EXCEPT
    !.log = logSync(@, LogEntry("success", CompleteMessage(st.task.dir), "",
                                st.task.updated, st.task.created, {})),
    !.lastSync = @ + 1,
    !.passes[st.task.pass] = [@ EXCEPT !.outcome = "complete",
                                       !.created = st.task.created,
                                       !.updated = st.task.updated]])

\* the end of the try block
Complete(st) ==
  EndDirection([st EXCEPT
    !.log = logSync(@, LogEntry("success", CompleteMessage(st.task.dir), "",
                                st.task.created, st.task.updated, {})),
    !.lastSync = @ + 1,
    !.passes[st.task.pass] = [@ EXCEPT !.outcome = "complete",
                                       !.created = st.task.created,
                                       !.updated = st.task.updated]])

\* faulty variant of Abort: the error leaves performFullSync as well
Abort_EndsChain(st, apiMessage) ==
  [st EXCEPT
    !.task = IdleTask,
    !.log = logSync(logSync(@, Note("error", apiMessage)), Note("error", "Sync failed")),
    !.ops = IF st.task.call = 0 THEN @ ELSE [@ EXCEPT ![st.task.call].status = "failed"],
    !.passes[st.task.pass] = [@ EXCEPT !.outcome = "aborted",
                                       !.created = st.task.created,
                                       !.updated = st.task.updated]]

\* faulty variant of Abort: config.lastSync is written in the catch block too
Abort_WritesLastSync(st, apiMessage) ==
  EndDirection([st EXCEPT
    !.log = logSync(logSync(@, Note("error", apiMessage)), Note("error", "Sync failed")),
    !.lastSync = @ + 1,
    !.ops = IF st.task.call = 0 THEN @ ELSE [@ EXCEPT ![st.task.call].status = "failed"],
    !.passes[st.task.pass] = [@ EXCEPT !.outcome = "aborted",
                                       !.created = st.task.created,
                                       !.updated = st.task.updated]])

\* faulty variant of Abort: a rejected Create or Update is issued again
Abort_Retry(st, apiMessage) ==
  IF st.task.call = 0
  THEN EndDirection([st EXCEPT
         !.log = logSync(logSync(@, Note("error", apiMessage)), Note("error", "Sync failed")),
         !.passes[st.task.pass] = [@ EXCEPT !.outcome = "aborted"]])
  ELSE [st EXCEPT
         !.log = logSync(@, Note("error", apiMessage)),
         !.ops = Append([@ EXCEPT ![st.task.call].status = "failed"],
                        [@[st.task.call] EXCEPT !.status = "pending"]),
         !.task.call = Len(st.ops) + 1]

\* a rejected call: the API function logs and rethrows, the catch block logs
Abort(st, apiMessage) ==
  EndDirection([st EXCEPT
    !.log = logSync(logSync(@, Note("error", apiMessage)), Note("error", "Sync failed")),
    !.ops = IF st.task.call = 0 THEN @ ELSE [@ EXCEPT ![st.task.call].status = "failed"],
    !.passes[st.task.pass] = [@ EXCEPT !.outcome = "aborted",
                                       !.created = st.task.created,
                                       !.updated = st.task.updated]])

\* faulty variant of Decide: the test for an empty updateData is missing
Decide_NoEmptyCheck(existingId, updateData) ==
  IF existingId = 0 THEN "create" ELSE "update"

\* what the loop body does with one source record
Decide(existingId, updateData) ==
  IF existingId = 0 THEN "create"
  ELSE IF DOMAIN updateData # {} THEN "update"
  ELSE "skip"

CreatePayload(dir, data) ==
  IF dir = "h2m" THEN CreateColumnValues(data) ELSE CreateProperties(data)

UpdatePayload(dir, updateData) ==
  IF dir = "h2m" THEN UpdateColumnValues(updateData) ELSE UpdateProperties(updateData)

\* faulty variant of Loop: the promise awaited for a Create or Update is one
\* that nothing resolves
RECURSIVE Loop_NeverResolves(_, _)
Loop_NeverResolves(st, j) ==
  IF j > Len(st.task.src) THEN Complete(st)
  ELSE
    LET dir == st.task.dir
        data == SourceData(dir, st.task.src[j])
        existingId == MapGet(st.task.map, data.subject)
        updateData == UpdateData(fieldRules, SourcePlatform(dir), data)
        decision == Decide(existingId, updateData)
        op == [pass |-> st.task.pass, idx |-> j, op |-> decision, key |-> data.subject,
               id |-> existingId,
               data |-> IF decision = "create" THEN data ELSE updateData,
               payload |-> IF decision = "create" THEN CreatePayload(dir, data)
                           ELSE UpdatePayload(dir, updateData),
               status |-> IF decision = "skip" THEN "none" ELSE "pending"]
        st1 == [st EXCEPT !.ops = Append(@, op)]
    IN IF decision = "skip" THEN Loop_NeverResolves(st1, j + 1)
       ELSE [st1 EXCEPT !.task.pc = "waiting", !.task.i = j,
                        !.task.call = Len(st1.ops)]

\* faulty variant of Loop: the Create and the Update are not awaited
RECURSIVE Loop_NoAwait(_, _)
Loop_NoAwait(st, j) ==
  IF j > Len(st.task.src) THEN Complete(st)
  ELSE
    LET dir == st.task.dir
        data == SourceData(dir, st.task.src[j])
        existingId == MapGet(st.task.map, data.subject)
        updateData == UpdateData(fieldRules, SourcePlatform(dir), data)
        decision == Decide(existingId, updateData)
        op == [pass |-> st.task.pass, idx |-> j, op |-> decision, key |-> data.subject,
               id |-> existingId,
               data |-> IF decision = "create" THEN data ELSE updateData,
               payload |-> IF decision = "create" THEN CreatePayload(dir, data)
                           ELSE UpdatePayload(dir, updateData),
               status |-> IF decision = "skip" THEN "none" ELSE "pending"]
    IN Loop_NoAwait([st EXCEPT !.ops = Append(@, op)], j + 1)

\* faulty variant of Loop: a key created earlier in the pass counts as present
\* in the target index, so a later record with that key is skipped
RECURSIVE Loop_IndexUpdated(_, _)
Loop_IndexUpdated(st, j) ==
  IF j > Len(st.task.src) THEN Complete(st)
  ELSE
    LET dir == st.task.dir
        data == SourceData(dir, st.task.src[j])
        existingId == MapGet(st.task.map, data.subject)
        updateData == UpdateData(fieldRules, SourcePlatform(dir), data)
        added == \E n \in 1..Len(st.ops) :
                   /\ st.ops[n].pass = st.task.pass
                   /\ st.ops[n].op = "create"
                   /\ st.ops[n].key = data.subject
        decision == IF added THEN "skip" ELSE Decide(existingId, updateData)
        op == [pass |-> st.task.pass, idx |-> j, op |-> decision, key |-> data.subject,
               id |-> existingId,
               data |-> IF decision = "create" THEN data ELSE updateData,
               payload |-> IF decision = "create" THEN CreatePayload(dir, data)
                           ELSE UpdatePayload(dir, updateData),
               status |-> IF decision = "skip" THEN "none" ELSE "pending"]
        st1 == [st EXCEPT !.ops = Append(@, op)]
    IN IF decision = "skip" THEN Loop_IndexUpdated(st1, j + 1)
       ELSE [st1 EXCEPT !.task.pc = "apply", !.task.i = j,
                        !.task.call = Len(st1.ops)]

\* faulty variant of Loop: the enabled flag is tested again before each record
\* and the routine returns when it finds sync disabled
RECURSIVE Loop_ChecksGate(_, _)
Loop_ChecksGate(st, j) ==
  IF j > Len(st.task.src) THEN Complete(st)
  ELSE IF ~syncEnabled THEN [st EXCEPT !.task = IdleTask]
  ELSE
    LET dir == st.task.dir
        data == SourceData(dir, st.task.src[j])
        existingId == MapGet(st.task.map, data.subject)
        updateData == UpdateData(fieldRules, SourcePlatform(dir), data)
        decision == Decide(existingId, updateData)
        op == [pass |-> st.task.pass, idx |-> j, op |-> decision, key |-> data.subject,
               id |-> existingId,
               data |-> IF decision = "create" THEN data ELSE updateData,
               payload |-> IF decision = "create" THEN CreatePayload(dir, data)
                           ELSE UpdatePayload(dir, updateData),
               status |-> IF decision = "skip" THEN "none" ELSE "pending"]
        st1 == [st EXCEPT !.ops = Append(@, op)]
    IN IF decision = "skip" THEN Loop_ChecksGate(st1, j + 1)
       ELSE [st1 EXCEPT !.task.pc = "apply", !.task.i = j,
                        !.task.call = Len(st1.ops)]

\* for (const record of source) { ... } from record j up to the next await
RECURSIVE Loop(_, _)
Loop(st, j) ==
  IF j > Len(st.task.src) THEN Complete(st)
  ELSE
    LET dir == st.task.dir
        data == SourceData(dir, st.task.src[j])
        existingId == MapGet(st.task.map, data.subject)
        updateData == UpdateData(fieldRules, SourcePlatform(dir), data)
        decision == Decide(existingId, updateData)
        op == [pass |-> st.task.pass, idx |-> j, op |-> decision, key |-> data.subject,
               id |-> existingId,
               data |-> IF decision = "create" THEN data ELSE updateData,
               payload |-> IF decision = "create" THEN CreatePayload(dir, data)
                           ELSE UpdatePayload(dir, updateData),
               status |-> IF decision = "skip" THEN "none" ELSE "pending"]
        st1 == [st EXCEPT !.ops = Append(@, op)]
    IN IF decision = "skip" THEN Loop(st1, j + 1)
       ELSE [st1 EXCEPT !.task.pc = "apply", !.task.i = j,
                        !.task.call = Len(st1.ops)]


(***************************** steps of a running chain ********************)
ApiErrorMessage(api, op) ==
  IF api = "monday" THEN "Monday.com API error"
  ELSE IF op = "fetch" THEN "Error fetching HubSpot tickets"
  ELSE IF op = "create" THEN "Error creating HubSpot ticket"
  ELSE "Error updating HubSpot ticket"

\* the platform a pass reads its source records from / writes to
SourceApi(dir) == IF dir = "h2m" THEN "hubspot" ELSE "monday"
TargetApi(dir) == IF dir = "h2m" THEN "monday" ELSE "hubspot"

\* HubSpot answers a request that carries a token, Monday one that carries a
\* token and names a board; any other request is rejected
Authorized(api) ==
  IF api = "hubspot" THEN hubspotToken # ""
  ELSE mondayToken # "" /\ mondayBoardId # ""

\* the first fetch (the source records) returns
FetchSourceOk(t) ==
  /\ tasks[t].pc = "fetchSrc"
  /\ Authorized(SourceApi(tasks[t].dir))
  /\ LET src == IF tasks[t].dir = "h2m" THEN GetHubSpotTickets(hubspot)
                ELSE GetMondayItems(monday)
     IN /\ tasks' = [tasks EXCEPT ![t].pc = "fetchTgt", ![t].src = src]
        /\ passes' = [passes EXCEPT ![tasks[t].pass].src = src]
  /\ UNCHANGED <<before, credentials, syncEnabled, lastSync, syncLog, fieldRules, remotes, timers, ops, counters>>

\* the second fetch (the target records) returns: the index is built and the
\* loop runs up to its first remote call
FetchTargetOk(t) ==
  /\ tasks[t].pc = "fetchTgt"
  /\ Authorized(TargetApi(tasks[t].dir))
  /\ LET map == IF tasks[t].dir = "h2m" THEN MondayMap(GetMondayItems(monday))
                ELSE HubSpotMap(GetHubSpotTickets(hubspot))
         st == [Frame(t) EXCEPT !.task.map = map,
                                !.passes[tasks[t].pass].map = map,
                                !.passes[tasks[t].pass].planRules = fieldRules,
                                !.passes[tasks[t].pass].fetched = TRUE]
     IN Commit(t, Loop(st, 1))
  /\ UNCHANGED <<before, credentials, syncEnabled, fieldRules, remotes, timers, counters>>

\* either fetch throws
FetchFail(t) ==
  /\ tasks[t].pc \in {"fetchSrc", "fetchTgt"}
  /\ LET api == IF tasks[t].pc = "fetchSrc" THEN SourceApi(tasks[t].dir)
                ELSE TargetApi(tasks[t].dir)
     IN /\ nFail < MaxFail \/ ~Authorized(api)
        /\ nFail' = IF Authorized(api) THEN nFail + 1 ELSE nFail
        /\ Commit(t, Abort(Frame(t), ApiErrorMessage(api, "fetch")))
  /\ UNCHANGED <<before, credentials, syncEnabled, fieldRules, remotes, timers, nTrig, nAdmin>>

\* the pending Create or Update is accepted by the remote
ApplyOk(t) ==
  /\ tasks[t].pc = "apply"
  /\ Authorized(TargetApi(tasks[t].dir))
  /\ LET dir == tasks[t].dir
         req == ops[tasks[t].call]
         st == [Frame(t) EXCEPT
                  !.ops[tasks[t].call].status = "ok",
                  !.task.created = IF req.op = "create" THEN @ + 1 ELSE @,
                  !.task.updated = IF req.op = "update" THEN @ + 1 ELSE @,
                  !.task.call = 0,
                  !.log = logSync(@,
                     IF req.op = "create"
                     THEN LogEntry("success", CreatedMessage(dir), req.key, 0, 0, {})
                     ELSE LogEntry("info", UpdatedMessage(dir), req.key, 0, 0,
                                   DOMAIN req.data))]
     IN /\ monday' = IF dir # "h2m" THEN monday
                     ELSE IF req.op = "create" THEN MondayCreate(monday, req.key, req.payload)
                     ELSE MondayUpdate(monday, req.id, req.payload)
        /\ hubspot' = IF dir # "m2h" THEN hubspot
                      ELSE IF req.op = "create" THEN HubSpotCreate(hubspot, req.payload)
                      ELSE HubSpotUpdate(hubspot, req.id, req.payload)
        /\ Commit(t, Loop(st, tasks[t].i + 1))
  /\ UNCHANGED <<before, credentials, syncEnabled, fieldRules, timers, counters>>

\* the pending Create or Update is rejected by the remote
ApplyFail(t) ==
  /\ tasks[t].pc = "apply"
  /\ nFail < MaxFail \/ ~Authorized(TargetApi(tasks[t].dir))
  /\ nFail' = IF Authorized(TargetApi(tasks[t].dir)) THEN nFail + 1 ELSE nFail
  /\ Commit(t, Abort(Frame(t),
                     ApiErrorMessage(TargetApi(tasks[t].dir), ops[tasks[t].call].op)))
  /\ UNCHANGED <<before, credentials, syncEnabled, fieldRules, remotes, timers, nTrig, nAdmin>>

(***************************** entry points ********************************)
HasFreeTask == \E t \in TaskIds : tasks[t].pc = "idle"
FreeTask == CHOOSE t \in TaskIds :
              tasks[t].pc = "idle" /\ \A u \in TaskIds : u < t => tasks[u].pc # "idle"

\* a call of performFullSync() or of one direction that nobody awaits
StartChain(kind, dir, log) ==
  Commit(FreeTask, BeginDirection([Frame(FreeTask) EXCEPT !.log = log], kind, dir))

\* app.post('/sync')
ManualSync ==
  /\ HasFreeTask
  /\ nTrig' = nTrig + 1
  /\ StartChain("full", "h2m", logSync(syncLog, Note("info", "Manual sync triggered")))
  /\ UNCHANGED <<before, credentials, syncEnabled, fieldRules, remotes, timers, nAdmin, nFail>>

\* cron.schedule('*/5 * * * *')
CronTick ==
  /\ HasFreeTask
  /\ nTrig' = nTrig + 1
  /\ IF syncEnabled
     THEN StartChain("full", "h2m",
                     logSync(syncLog, Note("info", "Scheduled sync starting...")))
     ELSE UNCHANGED <<lastSync, syncLog, tasks, passes, ops>>
  /\ UNCHANGED <<before, credentials, syncEnabled, fieldRules, remotes, timers, nAdmin, nFail>>

\* app.post('/webhook/hubspot') and app.post('/webhook/monday')
Webhook(platform) ==
  /\ nTrig' = nTrig + 1
  /\ IF syncEnabled
     THEN /\ syncLog' = logSync(syncLog, Note("info",
                 IF platform = "hubspot" THEN "HubSpot webhook received"
                 ELSE "Monday.com webhook received"))
          /\ timers' = [timers EXCEPT ![platform] = @ + 1]
     ELSE UNCHANGED <<syncLog, timers>>
  /\ UNCHANGED <<before, credentials, syncEnabled, lastSync, fieldRules, remotes, tasks, passes, ops, nAdmin, nFail>>

\* faulty variant of TimerFire: the callback calls performFullSync()
TimerFire_FullSync(platform) ==
  /\ timers[platform] > 0
  /\ HasFreeTask
  /\ timers' = [timers EXCEPT ![platform] = @ - 1]
  /\ StartChain("full", "h2m", syncLog)
  /\ UNCHANGED <<before, credentials, syncEnabled, fieldRules, remotes, counters>>

\* faulty variant of TimerFire: the delayed direction runs without testing the
\* enabled flag, the handler having tested it
TimerFire_NoGate(platform) ==
  /\ timers[platform] > 0
  /\ HasFreeTask
  /\ timers' = [timers EXCEPT ![platform] = @ - 1]
  /\ Commit(FreeTask,
            BeginDirection_NoGate(Frame(FreeTask),
                                  IF platform = "hubspot" THEN "h2m" ELSE "m2h",
                                  IF platform = "hubspot" THEN "h2m" ELSE "m2h"))
  /\ UNCHANGED <<before, credentials, syncEnabled, fieldRules, remotes, counters>>

\* the setTimeout callback of a webhook runs one direction
TimerFire(platform) ==
  /\ timers[platform] > 0
  /\ HasFreeTask
  /\ timers' = [timers EXCEPT ![platform] = @ - 1]
  /\ StartChain(IF platform = "hubspot" THEN "h2m" ELSE "m2h",
                IF platform = "hubspot" THEN "h2m" ELSE "m2h", syncLog)
  /\ UNCHANGED <<before, credentials, syncEnabled, fieldRules, remotes, counters>>

(***************************** admin requests ******************************)
\* app.post('/enable')
Enable ==
  /\ nAdmin' = nAdmin + 1
  /\ syncEnabled' = TRUE
  /\ syncLog' = logSync(syncLog, Note("success", "Auto-sync enabled"))
  /\ UNCHANGED <<before, credentials, lastSync, fieldRules, remotes, tasks, timers, passes, ops, nTrig, nFail>>

\* app.post('/disable')
Disable ==
  /\ nAdmin' = nAdmin + 1
  /\ syncEnabled' = FALSE
  /\ syncLog' = logSync(syncLog, Note("info", "Auto-sync disabled"))
  /\ UNCHANGED <<before, credentials, lastSync, fieldRules, remotes, tasks, timers, passes, ops, nTrig, nFail>>

\* app.post('/config'): the three form values are stored as they come
Config(body) ==
  /\ nAdmin' = nAdmin + 1
  /\ hubspotToken' = body.hubspotToken
  /\ mondayToken' = body.mondayToken
  /\ mondayBoardId' = body.mondayBoardId
  /\ syncLog' = logSync(syncLog, Note("info", "Configuration updated"))
  /\ UNCHANGED <<before, syncEnabled, lastSync, fieldRules, remotes, tasks, timers, passes, ops, nTrig, nFail>>

\* app.post('/rules'): a missing or empty form value falls back to the default
Rules(body) ==
  /\ nAdmin' = nAdmin + 1
  /\ fieldRules' = [f \in Fields |-> OrElse(body[f], defaultFieldRules[f])]
  /\ syncLog' = logSync(syncLog, Note("success", "Field rules updated"))
  /\ UNCHANGED <<before, credentials, syncEnabled, lastSync, remotes, tasks, timers, passes, ops, nTrig, nFail>>


(***************************** records of the remote stores ****************)
Ticket(subject, content, stage, priority) ==
  [subject |-> subject, content |-> content, hs_pipeline_stage |-> stage,
   hs_ticket_priority |-> priority]

Item(name, text, status, priority) ==
  [name |-> name,
   column_values |-> [text |-> text, status |-> status, priority |-> priority]]

\* tickets and items as the two platforms may hold them: HubSpot always has a
\* pipeline stage, the other values may be empty
SampleTickets ==
  { Ticket(k, v[1], "hs", v[2]) : k \in Keys, v \in {<<"hc", "hp">>, <<"", "">>} }
SampleItems ==
  { Item(k, v[1], v[2], v[3]) : k \in Keys, v \in {<<"mc", "ms", "mp">>, <<"", "", "mp">>} }

SeqsUpTo(S, n) == UNION { [1..m -> S] : m \in 0..n }

StartedLog == logSync(<<>>, Note("success", "Server started successfully"))

\* the state the listen callback leaves
Configured ==
  /\ hubspotToken = "token"
  /\ mondayToken = "token"
  /\ mondayBoardId = "board"

Started ==
  /\ syncEnabled = FALSE
  /\ lastSync = 0
  /\ syncLog = StartedLog
  /\ fieldRules = defaultFieldRules
  /\ tasks = [t \in TaskIds |-> IdleTask]
  /\ timers = [hubspot |-> 0, monday |-> 0]
  /\ passes = <<>>
  /\ ops = <<>>
  /\ nTrig = 0
  /\ nAdmin = 0
  /\ nFail = 0

(***************************** the server under any interleaving ***********)
Init ==
  /\ Configured
  /\ Started
  /\ hubspot = <<Ticket("k1", "hc", "hs", "hp")>>
  /\ monday = <<>>
  /\ before = [hubspot |-> hubspot, monday |-> monday]

RuleBodies ==
  { [title |-> "", description |-> "", status |-> "", priority |-> ""],
    [title |-> "both", description |-> "both", status |-> "both", priority |-> "both"],
    [title |-> "monday", description |-> "monday", status |-> "hubspot",
     priority |-> "hubspot"],
    [title |-> "anything", description |-> "", status |-> "", priority |-> ""] }

TaskStep(t) ==
  \/ FetchSourceOk(t)
  \/ FetchTargetOk(t)
  \/ FetchFail(t)
  \/ ApplyOk(t)
  \/ ApplyFail(t)

Next ==
  \/ nTrig < MaxTriggers /\ ManualSync
  \/ nTrig < MaxTriggers /\ CronTick
  \/ nTrig < MaxTriggers /\ \E platform \in {"hubspot", "monday"} : Webhook(platform)
  \/ \E platform \in {"hubspot", "monday"} : TimerFire(platform)
  \/ nAdmin < MaxAdmin /\ Enable
  \/ nAdmin < MaxAdmin /\ Disable
  \/ nAdmin < MaxAdmin /\ \E body \in RuleBodies : Rules(body)
  \/ \E t \in TaskIds : TaskStep(t)

Spec == Init /\ [][Next]_vars

(***************************** one pass at a time **************************)
\* sync enabled by POST /enable, any field policy, any two small stores
InitPass ==
  /\ Configured
  /\ syncEnabled = TRUE
  /\ lastSync = 0
  /\ syncLog = logSync(StartedLog, Note("success", "Auto-sync enabled"))
  /\ fieldRules \in [Fields -> Platforms]
  /\ hubspot \in SeqsUpTo(SampleTickets, MaxLen)
  /\ monday \in SeqsUpTo(SampleItems, MaxLen)
  /\ Len(hubspot) + Len(monday) <= MaxTotal
  /\ before = [hubspot |-> hubspot, monday |-> monday]
  /\ tasks = [t \in TaskIds |-> IdleTask]
  /\ timers = [hubspot |-> 0, monday |-> 0]
  /\ passes = <<>>
  /\ ops = <<>>
  /\ nTrig = 0
  /\ nAdmin = 1
  /\ nFail = 0

\* nothing else is running or scheduled when a pass is triggered
Quiet == AllIdle /\ NoTimers

NextPass ==
  \/ Quiet /\ passes = <<>> /\ \E platform \in {"hubspot", "monday"} : Webhook(platform)
  \/ Quiet /\ passes = <<>> /\ ManualSync
  \/ \E platform \in {"hubspot", "monday"} : TimerFire(platform)
  \/ \E t \in TaskIds : TaskStep(t)

SpecPass == InitPass /\ [][NextPass]_vars


\* one pass over stores of one key each, every remote call answered in the
\* end and every timer fired
InitLive ==
  /\ InitPass
  /\ \E body \in RuleBodies :
       fieldRules = [f \in Fields |-> OrElse(body[f], defaultFieldRules[f])]
  /\ \A i \in 1..Len(hubspot) : hubspot[i] = Ticket("k1", "hc", "hs", "hp")
  /\ \A j \in 1..Len(monday) : monday[j] = Item("k2", "mc", "ms", "mp")

SpecLive ==
  /\ InitLive
  /\ [][NextPass]_vars
  /\ \A t \in TaskIds : WF_vars(TaskStep(t))
  /\ \A platform \in {"hubspot", "monday"} : WF_vars(TimerFire(platform))


(***************************** the policy changed during a pass ************)
\* two records on each side, the same two keys; POST /rules may be served
\* while a pass waits for a remote call
InitRules ==
  /\ Configured
  /\ syncEnabled = TRUE
  /\ lastSync = 0
  /\ syncLog = logSync(StartedLog, Note("success", "Auto-sync enabled"))
  /\ fieldRules = defaultFieldRules
  /\ hubspot = <<Ticket("k1", "hc", "hs", "hp"), Ticket("k2", "hc", "hs", "hp")>>
  /\ monday \in {<<>>, <<Item("k1", "mc", "ms", "mp"), Item("k2", "mc", "ms", "mp")>>}
  /\ before = [hubspot |-> hubspot, monday |-> monday]
  /\ tasks = [t \in TaskIds |-> IdleTask]
  /\ timers = [hubspot |-> 0, monday |-> 0]
  /\ passes = <<>>
  /\ ops = <<>>
  /\ nTrig = 0
  /\ nAdmin = 0
  /\ nFail = 0

NextRules ==
  \/ Quiet /\ passes = <<>> /\ ManualSync
  \/ nAdmin < MaxAdmin /\ \E body \in RuleBodies : Rules(body)
  \/ \E t \in TaskIds : TaskStep(t)

SpecRules == InitRules /\ [][NextRules]_vars


(***************************** a HubSpot account past one page *************)
\* HubSpot holds a full page of tickets, and then the tickets created later
PageOfTickets ==
  [n \in 1..HubSpotLimit |-> Ticket("f" \o ToString(n), "hc", "hs", "hp")]

InitPaged ==
  /\ Configured
  /\ syncEnabled = TRUE
  /\ lastSync = 0
  /\ syncLog = logSync(StartedLog, Note("success", "Auto-sync enabled"))
  /\ \E body \in RuleBodies :
       fieldRules = [f \in Fields |-> OrElse(body[f], defaultFieldRules[f])]
  /\ \E later \in {<<>>, <<Ticket("k1", "hc", "hs", "hp")>>} :
       hubspot = PageOfTickets \o later
  /\ monday \in SeqsUpTo({Item(k, "mc", "ms", "mp") : k \in Keys}, MaxLen) \ {<<>>}
  /\ \A i, j \in 1..Len(monday) : monday[i].name = monday[j].name => i = j
  /\ before = [hubspot |-> hubspot, monday |-> monday]
  /\ tasks = [t \in TaskIds |-> IdleTask]
  /\ timers = [hubspot |-> 0, monday |-> 0]
  /\ passes = <<>>
  /\ ops = <<>>
  /\ nTrig = 0
  /\ nAdmin = 1
  /\ nFail = 0

\* Monday -> HubSpot passes, one after the other
NextPaged ==
  \/ Quiet /\ Len(passes) < MaxPasses /\ Webhook("monday")
  \/ TimerFire("monday")
  \/ \E t \in TaskIds : TaskStep(t)

SpecPaged == InitPaged /\ [][NextPaged]_vars

\* every remote call is answered with data
TaskStepOk(t) ==
  \/ FetchSourceOk(t)
  \/ FetchTargetOk(t)
  \/ ApplyOk(t)

\* full passes, one after the other, over the same account, none of their
\* calls failing
NextFullPaged ==
  \/ Quiet /\ Len(passes) < 2 * MaxPasses /\ ManualSync
  \/ \E t \in TaskIds : TaskStepOk(t)

SpecFullPaged == InitPaged /\ [][NextFullPaged]_vars


(***************************** the server as first deployed ****************)
\* each of the three environment variables may be unset
InitConfig ==
  /\ hubspotToken \in {"", "token"}
  /\ mondayToken \in {"", "token"}
  /\ mondayBoardId \in {"", "board"}
  /\ Started
  /\ hubspot = <<Ticket("k1", "hc", "hs", "hp")>>
  /\ monday = <<>>
  /\ before = [hubspot |-> hubspot, monday |-> monday]

\* req.body of POST /config: a field left blank arrives as ''
ConfigBodies ==
  [hubspotToken : {"", "token"}, mondayToken : {"", "token"}, mondayBoardId : {"", "board"}]

NextConfig ==
  \/ nAdmin < MaxAdmin /\ \E body \in ConfigBodies : Config(body)
  \/ nAdmin < MaxAdmin /\ Enable
  \/ nTrig < MaxTriggers /\ ManualSync
  \/ nTrig < MaxTriggers /\ CronTick
  \/ nTrig < MaxTriggers /\ \E platform \in {"hubspot", "monday"} : Webhook(platform)
  \/ \E platform \in {"hubspot", "monday"} : TimerFire(platform)
  \/ \E t \in TaskIds : TaskStep(t)

SpecConfig == InitConfig /\ [][NextConfig]_vars


(***************************** a long-running server ***********************)
\* the log after the server has started and POST /disable has been served
\* k - 1 times
LogAfter(k) ==
  [e \in 1..k |->
     [(IF e = k THEN Note("success", "Server started successfully")
       ELSE Note("info", "Auto-sync disabled")) EXCEPT !.timestamp = k + 1 - e]]

InitLog ==
  /\ Configured
  /\ syncEnabled = FALSE
  /\ lastSync = 0
  /\ \E k \in 1..LogCap : syncLog = LogAfter(k)
  /\ fieldRules = defaultFieldRules
  /\ hubspot = <<>>
  /\ monday = <<>>
  /\ before = [hubspot |-> hubspot, monday |-> monday]
  /\ tasks = [t \in TaskIds |-> IdleTask]
  /\ timers = [hubspot |-> 0, monday |-> 0]
  /\ passes = <<>>
  /\ ops = <<>>
  /\ nTrig = 0
  /\ nAdmin = 0
  /\ nFail = 0

\* admin requests, each of which writes one log entry
NextLog ==
  \/ nAdmin < MaxAdmin /\ Enable
  \/ nAdmin < MaxAdmin /\ Disable
  \/ nAdmin < MaxAdmin /\ \E body \in RuleBodies : Rules(body)

SpecLog == InitLog /\ [][NextLog]_vars


(***************************** properties **********************************)
Running == {t \in TaskIds : tasks[t].pc # "idle"}

OpsOf(p) == {n \in 1..Len(ops) : ops[n].pass = p}
Creates(p) == {n \in OpsOf(p) : ops[n].op = "create"}
Updates(p) == {n \in OpsOf(p) : ops[n].op = "update"}
Skips(p) == {n \in OpsOf(p) : ops[n].op = "skip"}
Ended(p) == passes[p].outcome # "running"
Completed(p) == passes[p].outcome = "complete"

\* C1: re-entrancy is guarded: whatever the interleaving of timer ticks,
\* manual triggers and webhook passes, at most one reconciliation pass is in
\* progress in any reachable state.
C1_AtMostOnePassInProgress == Cardinality(Running) <= 1

\* C2: no double-create: with no external change to either store, for each
\* direction and identity key at most one Create of a target record with that
\* key is ever applied, whatever the interleaving of the triggers.
C2_NoDoubleCreate ==
  \A dir \in {"h2m", "m2h"}, k \in Keys :
    Cardinality({n \in 1..Len(ops) :
                   /\ ops[n].op = "create"
                   /\ ops[n].status = "ok"
                   /\ ops[n].key = k
                   /\ passes[ops[n].pass].dir = dir}) <= 1


(***************************** logical fields of stored records ************)
\* the key under which ticketData / itemData / updateData hold a logical field
DataKey(field) ==
  IF field = "title" THEN "subject"
  ELSE IF field = "description" THEN "content"
  ELSE field

PropertyOf(field) ==
  IF field = "title" THEN "subject"
  ELSE IF field = "description" THEN "content"
  ELSE IF field = "status" THEN "hs_pipeline_stage"
  ELSE "hs_ticket_priority"

\* the value a record of the target platform of dir holds for a logical field
TargetField(dir, rec, field) ==
  IF dir = "m2h" THEN rec[PropertyOf(field)]
  ELSE IF field = "title" THEN rec.name
  ELSE rec.column_values[fieldMapping[field]]

TargetKey(dir, rec) == TargetField(dir, rec, "title")

Source(dir, stores) == IF dir = "h2m" THEN stores.hubspot ELSE stores.monday
Target(dir, stores) == IF dir = "h2m" THEN stores.monday ELSE stores.hubspot
Now == [hubspot |-> hubspot, monday |-> monday]

\* the source record an op was decided for, as the pass read it
OpSource(n) == SourceData(passes[ops[n].pass].dir, passes[ops[n].pass].src[ops[n].idx])
OpDir(n) == passes[ops[n].pass].dir

\* the logical fields the policy lets direction dir push
Pulled(dir) ==
  {f \in Fields : fieldRules[f] = "both" \/ fieldRules[f] = SourcePlatform(dir)}

\* the target store held a record with this key before the first pass
MatchedBefore(dir, key) ==
  \E j \in 1..Len(Target(dir, before)) : TargetKey(dir, Target(dir, before)[j]) = key

\* the logical fields an Update payload writes on the target of dir
PayloadFields(dir, payload) ==
  IF dir = "m2h" THEN {f \in Fields : PropertyOf(f) \in DOMAIN payload}
  ELSE {f \in Fields \ {"title"} : fieldMapping[f] \in DOMAIN payload}

FieldSet(n) == {f \in Fields : DataKey(f) \in DOMAIN ops[n].data}

\* C3: failure isolation: once a pass whose two snapshot fetches succeeded
\* has ended, every one of its source records 1..n has been attempted, also
\* those after a record whose Create or Update failed.
C3_FailureIsolation ==
  \A p \in 1..Len(passes) :
    (Ended(p) /\ passes[p].fetched) =>
      \A j \in 1..Len(passes[p].src) : \E n \in OpsOf(p) : ops[n].idx = j

\* C6: create-vs-update partition: a source record yields a Create exactly
\* when the target held no record with its identity key, every other source
\* record yields an Update or a Skip, and a completed pass has decided every
\* source record once, so its Creates number the unmatched source records.
C6_CreateUpdatePartition ==
  \A p \in 1..Len(passes) :
    /\ \A n \in OpsOf(p) :
         (ops[n].op = "create") <=> ~MatchedBefore(passes[p].dir, OpSource(n).subject)
    /\ \A n, m \in OpsOf(p) : ops[n].idx = ops[m].idx => n = m
    /\ Completed(p) =>
         /\ {ops[n].idx : n \in OpsOf(p)} = 1..Len(passes[p].src)
         /\ Cardinality(Creates(p)) =
              Cardinality({j \in 1..Len(passes[p].src) :
                 ~MatchedBefore(passes[p].dir,
                                SourceData(passes[p].dir, passes[p].src[j]).subject)})

C6_Witness ==
  \E p \in 1..Len(passes) :
    /\ Completed(p)
    /\ Creates(p) # {}
    /\ Updates(p) # {}
    /\ Skips(p) = {}

C8_SkipCorrectness ==
  \A n \in 1..Len(ops) :
    /\ ops[n].op = "update" => DOMAIN ops[n].data # {}
    /\ ops[n].op = "skip" => ops[n].status = "none"
    /\ (ops[n].op # "create" /\ Pulled(OpDir(n)) = {}) => ops[n].op = "skip"
    /\ (ops[n].op = "skip" /\ ops[n].idx = Len(passes[ops[n].pass].src)) =>
          Completed(ops[n].pass)

C8_Witness ==
  \E n \in 1..Len(ops) :
    /\ ops[n].op = "skip"
    /\ Completed(ops[n].pass)
    /\ Target(OpDir(n), Now) = Target(OpDir(n), before)


\* C4: field ownership after a pass: once a direction pass has completed, for
\* every source record and target record with the same identity key, every
\* field whose policy is both or the source platform holds the source's value
\* on the target, and every other field of the target is as it was.
C4_FieldOwnershipAfterPass ==
  (Quiet /\ Len(passes) = 1 /\ Completed(1)) =>
    LET dir == passes[1].dir
    IN \A i \in 1..Len(Source(dir, Now)), j \in 1..Len(Target(dir, before)) :
         LET s == SourceData(dir, Source(dir, Now)[i])
         IN TargetKey(dir, Target(dir, before)[j]) = s.subject =>
              \A f \in Fields :
                TargetField(dir, Target(dir, Now)[j], f) =
                  IF f \in Pulled(dir) THEN s[DataKey(f)]
                  ELSE TargetField(dir, Target(dir, before)[j], f)

\* C5: idempotence: when the same direction pass runs twice in succession
\* with no change in between, the second run emits no Create, and every
\* record the first run updated gets the same Update field set in the second.
C5_IdempotentPass ==
  \A p \in 1..Len(passes) :
    (p > 1 /\ passes[p - 1].dir = passes[p].dir /\ Completed(p - 1)) =>
      /\ Creates(p) = {}
      /\ Completed(p) =>
           \A n \in Updates(p - 1) : \E m \in Updates(p) :
             ops[m].idx = ops[n].idx /\ ops[m].data = ops[n].data

\* the position of the record a successful Create appended to its target
CreatedAt(n) ==
  Len(Target(OpDir(n), before))
  + Cardinality({m \in 1..n : /\ ops[m].op = "create"
                              /\ ops[m].status = "ok"
                              /\ OpDir(m) = OpDir(n)})

\* C9: a source record with no match in the target index produces a Create
\* that carries all four logical fields of the source record, whatever the
\* field policy: the record created on the target holds the source's title,
\* description, status and priority.
C9_CreateCarriesAllFields ==
  \A n \in 1..Len(ops) :
    ops[n].op = "create" =>
      /\ ops[n].data = OpSource(n)
      /\ DOMAIN ops[n].data = {DataKey(f) : f \in Fields}
      /\ ops[n].status = "ok" =>
           \A f \in Fields :
             TargetField(OpDir(n), Target(OpDir(n), Now)[CreatedAt(n)], f) =
               OpSource(n)[DataKey(f)]

C9_Witness ==
  \E n \in 1..Len(ops) :
    /\ ops[n].op = "create"
    /\ ops[n].status = "ok"
    /\ OpDir(n) = "h2m"
    /\ \A f \in Fields : fieldRules[f] = "monday"
    /\ OpSource(n).priority # ""

FetchThrows(t) ==
  /\ tasks[t].pc \in {"fetchSrc", "fetchTgt"}
  /\ passes'[tasks[t].pass].outcome = "aborted"

\* the entries a step puts on the log, most recent first
NewEntries == SubSeq(syncLog', 1, Len(syncLog') - Len(syncLog))

\* a step that calls performFullSync() or one direction: POST /sync, a cron
\* tick, or the callback of a webhook's timer
CallsSync ==
  \/ nTrig' # nTrig /\ timers' = timers
  \/ nTrig' = nTrig /\ timers' # timers

\* C11: a fetch error during snapshot retrieval aborts only the one-direction
\* pass in which it occurs: that pass issues no Create or Update and leaves
\* both stores alone, the error is logged, the other chains go on, Monday ->
\* HubSpot of the same full pass still starts, and a later trigger starts a
\* pass as before.
C11_FetchErrorAbortsOnePass ==
  [][/\ \A t \in TaskIds :
          FetchThrows(t) =>
            /\ OpsOf(tasks[t].pass) = {}
            /\ ops' = ops /\ hubspot' = hubspot /\ monday' = monday
            /\ \E e \in 1..Len(NewEntries) : NewEntries[e].type = "error"
            /\ \A u \in TaskIds \ {t} : tasks'[u] = tasks[u]
            /\ IF tasks[t].kind = "full" /\ tasks[t].dir = "h2m" /\ syncEnabled
               THEN /\ tasks'[t].pc = "fetchSrc" /\ tasks'[t].dir = "m2h"
                    /\ Len(passes') = Len(passes) + 1
               ELSE tasks'[t].pc = "idle"
     /\ ((\E p \in 1..Len(passes) : passes[p].outcome = "aborted")
           /\ syncEnabled /\ CallsSync)
         => /\ Len(passes') = Len(passes) + 1
            /\ passes'[Len(passes')].outcome = "running"
    ]_vars

C11_Witness ==
  \E p, q, r \in 1..Len(passes) :
    /\ passes[p].outcome = "aborted" /\ ~passes[p].fetched
    /\ passes[p].kind = "full" /\ passes[p].dir = "h2m"
    /\ passes[q].after = p /\ passes[q].dir = "m2h" /\ passes[q].outcome = "complete"
    /\ r > q /\ passes[r].after = 0 /\ passes[r].outcome = "complete"

Logged(message) == \E e \in 1..Len(syncLog) : syncLog[e].message = message

\* C12: disabled gate: while sync is disabled, a cron tick, a webhook, the
\* callback of a webhook's timer and POST /sync start no pass, schedule no
\* timer, issue no fetch, Create or Update and leave both stores as they are.
C12_DisabledGate ==
  [][(~syncEnabled /\ (nTrig' # nTrig \/ timers' # timers)) =>
        /\ tasks' = tasks /\ passes' = passes /\ ops' = ops
        /\ hubspot' = hubspot /\ monday' = monday
        /\ (nTrig' # nTrig => timers' = timers)
    ]_vars

\* POST /sync and the callback of a webhook's timer both ran while disabled
C12_Witness ==
  /\ ~syncEnabled
  /\ Logged("Manual sync triggered")
  /\ Logged("HubSpot webhook received")
  /\ NoTimers
  /\ passes = <<>>

\* the pass a step starts is the last of the history
Starts(kind, dir) ==
  /\ Len(passes') = Len(passes) + 1
  /\ passes'[Len(passes')].kind = kind
  /\ passes'[Len(passes')].dir = dir

\* the step in which the pass of chain t ends
PassEnds(t) ==
  /\ tasks[t].pc # "idle"
  /\ passes'[tasks[t].pass].outcome # "running"

\* C13 as stated: every entry point runs the same full pass, so every
\* one-direction pass is part of a full pass: HubSpot -> Monday first, then
\* Monday -> HubSpot after it.
C13_EveryEntryPointRunsFullPass ==
  \A p \in 1..Len(passes) :
    /\ passes[p].kind = "full"
    /\ passes[p].dir = "m2h" <=> passes[p].after # 0

\* C13: a cron tick and POST /sync run the same full pass, HubSpot -> Monday
\* to its end followed by Monday -> HubSpot; the callback of a webhook's
\* timer runs only the direction that starts from the notifying platform, and
\* nothing follows it.
C13_EntryPointRoutines ==
  [][/\ (syncEnabled /\ nTrig' # nTrig /\ timers' = timers) => Starts("full", "h2m")
     /\ \A x \in {"hubspot", "monday"} :
          (syncEnabled /\ timers'[x] < timers[x]) =>
             IF x = "hubspot" THEN Starts("h2m", "h2m") ELSE Starts("m2h", "m2h")
     /\ \A t \in TaskIds :
          PassEnds(t) =>
            IF tasks[t].kind = "full" /\ tasks[t].dir = "h2m" /\ syncEnabled
            THEN /\ Starts("full", "m2h")
                 /\ tasks'[t].pass = Len(passes') /\ tasks'[t].pc = "fetchSrc"
                 /\ passes'[Len(passes')].after = tasks[t].pass
            ELSE tasks'[t].pc = "idle" /\ passes' = [passes EXCEPT ![tasks[t].pass] = passes'[tasks[t].pass]]
    ]_vars

\* a full pass and the pass of a Monday webhook have both run to their ends
C13_Witness ==
  \E p, q, r \in 1..Len(passes) :
    /\ passes[p].kind = "full" /\ passes[p].dir = "h2m" /\ passes[p].outcome = "complete"
    /\ passes[q].kind = "full" /\ passes[q].after = p /\ passes[q].outcome = "complete"
    /\ passes[r].kind = "m2h" /\ passes[r].after = 0 /\ passes[r].outcome = "complete"
    /\ \A n \in 1..Len(passes) : passes[n].after # r

\* the remote calls of pass p that are in flight: a snapshot fetch the chain
\* waits for, and the Creates and Updates not yet resolved
FetchesInFlight(p) ==
  {t \in TaskIds : tasks[t].pass = p /\ tasks[t].pc \in {"fetchSrc", "fetchTgt"}}
AppliesInFlight(p) == {n \in OpsOf(p) : ops[n].status = "pending"}

\* C14: sequential execution inside a full pass: a pass never has two remote
\* calls in flight, a Create or Update is issued only after both fetches have
\* resolved and the records are taken in snapshot order, each after the call
\* for the one before it has resolved; Monday -> HubSpot of a full pass
\* starts only when HubSpot -> Monday has ended with no call left in flight.
C14_SequentialExecution ==
  \A p \in 1..Len(passes) :
    /\ Cardinality(FetchesInFlight(p)) + Cardinality(AppliesInFlight(p)) <= 1
    /\ (FetchesInFlight(p) # {} \/ AppliesInFlight(p) # {}) => ~Ended(p)
    /\ OpsOf(p) # {} => passes[p].fetched
    /\ \A n, m \in OpsOf(p) :
         n < m => ops[n].idx < ops[m].idx /\ ops[n].status # "pending"
    /\ passes[p].after # 0 =>
         /\ Ended(passes[p].after)
         /\ FetchesInFlight(passes[p].after) = {}
         /\ AppliesInFlight(passes[p].after) = {}
         /\ \A n \in OpsOf(passes[p].after), m \in OpsOf(p) : n < m

\* a full pass has applied two records in the first direction and one in the
\* second
C14_Witness ==
  \E p, q \in 1..Len(passes) :
    /\ passes[q].after = p /\ Completed(p)
    /\ Cardinality({n \in OpsOf(p) : ops[n].status = "ok"}) = 2
    /\ \E n \in OpsOf(q) : ops[n].status = "ok"

\* C15: webhook debounce: notifications for one direction that arrive within
\* the delay are batched into a single delayed pass, a later notification
\* rescheduling the pending one, so a direction never has two delayed passes
\* pending.
C15_WebhookDebounce ==
  \A platform \in {"hubspot", "monday"} : timers[platform] <= 1

\* the value a stored record of a platform holds for a logical field
FieldOf(platform, rec, field) ==
  TargetField(IF platform = "hubspot" THEN "m2h" ELSE "h2m", rec, field)

\* ticket i and item j are the only records with their key, and it is the
\* same key
Pair(stores, i, j) ==
  /\ stores.hubspot[i].subject = stores.monday[j].name
  /\ \A i2 \in 1..Len(stores.hubspot) :
       stores.hubspot[i2].subject = stores.hubspot[i].subject => i2 = i
  /\ \A j2 \in 1..Len(stores.monday) :
       stores.monday[j2].name = stores.monday[j].name => j2 = j

\* one full pass has run, both directions to completion
FullPassDone ==
  /\ Len(passes) = 2
  /\ passes[1].kind = "full" /\ passes[2].after = 1
  /\ Completed(1) /\ Completed(2)

\* C16: BOTH tie-break: when a matched record's field has policy both and the
\* two platforms held different values before a full pass, then after the
\* full pass the field holds, on both platforms, the value that the source of
\* the last direction (Monday) had.
C16_BothTieBreak ==
  FullPassDone =>
    \A i \in 1..Len(before.hubspot), j \in 1..Len(before.monday), f \in Fields :
      (/\ Pair(before, i, j)
       /\ fieldRules[f] = "both"
       /\ FieldOf("hubspot", before.hubspot[i], f) # FieldOf("monday", before.monday[j], f))
      => /\ FieldOf("hubspot", hubspot[i], f) = FieldOf("monday", before.monday[j], f)
         /\ FieldOf("monday", monday[j], f) = FieldOf("monday", before.monday[j], f)

ErrorEntries == {e \in 1..Len(syncLog) : syncLog[e].type = "error"}

\* the remote calls that failed: each ends its pass
Failures == {p \in 1..Len(passes) : passes[p].outcome = "aborted"}
FailedOps == {n \in 1..Len(ops) : ops[n].status = "failed"}

\* C17: exactly one error log entry per failure: the log (not yet at its
\* cap) holds as many entries of severity error as calls have failed, and for
\* every rejected Create or Update an error entry that names the identity key
\* of the record.
C17_OneErrorEntryPerFailure ==
  Len(syncLog) < LogCap =>
    /\ Cardinality(ErrorEntries) = Cardinality(Failures)
    /\ \A n \in FailedOps : \E e \in ErrorEntries : syncLog[e].key = ops[n].key

\* C18: field policy invariant: in every reachable state, also after POST
\* /rules requests with arbitrary or missing form values, each of title,
\* description, status and priority has exactly one policy value, and it is
\* one of hubspot, monday and both.
C18_FieldPolicyInvariant ==
  /\ DOMAIN fieldRules = Fields
  /\ \A f \in Fields : fieldRules[f] \in Platforms

\* both tokens and the board id are non-empty
CredentialsSet == hubspotToken # "" /\ mondayToken # "" /\ mondayBoardId # ""

\* C19: no pass without credentials: in a state where the HubSpot token, the
\* Monday token or the board id is empty, no call of performFullSync() or of
\* one direction starts a pass, so none issues a fetch, a Create or an Update.
C19_NoPassWithoutCredentials ==
  [][(~CredentialsSet /\ CallsSync) =>
        /\ passes' = passes /\ tasks' = tasks /\ ops' = ops
    ]_vars

\* record j of a store has a later record with the same key
HasLater(dir, store, j) ==
  \E later \in (j + 1)..Len(store) : TargetKey(dir, store[later]) = TargetKey(dir, store[j])

\* C20: matcher last-write-wins: when the target snapshot holds several
\* records with one identity key, an Update for a source record with that key
\* goes to the occurrence that is latest in the snapshot, and the earlier
\* occurrences are left as they were.
C20_MatcherLastWriteWins ==
  /\ \A n \in 1..Len(ops) :
       ops[n].op = "update" =>
         LET tgt == Target(OpDir(n), before)
         IN /\ ops[n].id \in 1..Len(tgt)
            /\ TargetKey(OpDir(n), tgt[ops[n].id]) = ops[n].key
            /\ ~HasLater(OpDir(n), tgt, ops[n].id)
  /\ \A dir \in {"h2m", "m2h"} :
       \A j \in 1..Len(Target(dir, before)) :
         HasLater(dir, Target(dir, before), j) =>
           Target(dir, Now)[j] = Target(dir, before)[j]

\* the target held a key twice and the later record has been updated
C20_Witness ==
  \E n \in 1..Len(ops) :
    /\ ops[n].op = "update" /\ ops[n].status = "ok"
    /\ ops[n].id = 2
    /\ TargetKey(OpDir(n), Target(OpDir(n), before)[1]) = ops[n].key
    /\ Target(OpDir(n), Now)[2] # Target(OpDir(n), before)[2]
    /\ Target(OpDir(n), Now)[1] = Target(OpDir(n), before)[1]


(***************************** log, timestamp and counts *******************)
Newer(e1, e2) == e1.timestamp > e2.timestamp

\* C21: the log is a bounded most-recent-first buffer: it never holds more
\* than 50 entries and its entries are ordered newest to oldest; an append
\* puts the new entry at index 0 (the head of the sequence) and keeps the old
\* entries in their order, dropping exactly the oldest when the log was full.
C21_BoundedLog ==
  /\ [](/\ Len(syncLog) <= LogCap
        /\ \A e \in 1..(Len(syncLog) - 1) : Newer(syncLog[e], syncLog[e + 1]))
  /\ [][syncLog' # syncLog =>
          /\ \A e \in 1..Len(syncLog) : Newer(syncLog'[1], syncLog[e])
          /\ Tail(syncLog') = IF Len(syncLog) = LogCap
                              THEN SubSeq(syncLog, 1, LogCap - 1)
                              ELSE syncLog
       ]_vars

\* an append to the full log has dropped the oldest entry, that of start-up
C21_Witness ==
  /\ Len(syncLog) = LogCap
  /\ syncLog[LogCap].message # "Server started successfully"
  /\ syncLog[1].message = "Auto-sync enabled"

\* C22: config.lastSync is written only when a one-direction pass runs to
\* completion, once per completed pass: a pass that aborts on a fetch or
\* apply error and a call that returns at the disabled gate leave it as it is.
C22_LastSyncOnlyOnCompletion ==
  lastSync = Cardinality({p \in 1..Len(passes) : Completed(p)})

\* one direction has completed, the other has aborted, and POST /sync has
\* returned at the gate
C22_Witness ==
  /\ \E p \in 1..Len(passes) : Completed(p)
  /\ \E p \in 1..Len(passes) : passes[p].outcome = "aborted"
  /\ ~syncEnabled /\ syncLog[1].message = "Manual sync triggered"
  /\ lastSync = 1

\* the step in which the Create or Update chain t waits for is rejected
ApplyThrows(t) ==
  /\ tasks[t].pc = "apply"
  /\ ops'[tasks[t].call].status = "failed"

\* C23: no rollback and no retry within a pass: the step in which a Create
\* or Update fails changes neither store, so what the pass has applied stays
\* applied, and the failed operation is the last of its pass: it is not
\* issued again and nothing is issued after it.
C23_NoRollbackNoRetry ==
  /\ [](\A n \in FailedOps :
          \A m \in OpsOf(ops[n].pass) \ {n} : m < n /\ ops[m].idx < ops[n].idx)
  /\ [][\A t \in TaskIds :
          ApplyThrows(t) =>
            /\ hubspot' = hubspot /\ monday' = monday
            /\ ops' = [ops EXCEPT ![tasks[t].call].status = "failed"]
            /\ passes'[tasks[t].pass].outcome = "aborted"
       ]_vars

\* the second record of a pass has failed and the Create of the first is
\* still on the target
C23_Witness ==
  \E n \in FailedOps : \E m \in OpsOf(ops[n].pass) :
    /\ ops[n].idx = 2 /\ ops[m].idx = 1
    /\ ops[m].op = "create" /\ ops[m].status = "ok"
    /\ Len(Target(OpDir(m), Now)) = Len(Target(OpDir(m), before)) + 1
    /\ TargetKey(OpDir(m), Target(OpDir(m), Now)[CreatedAt(m)]) = ops[m].key

\* the default a Create documents for an optional field: createHubSpotTicket
\* and itemData for a ticket, the first createMondayItem
\* (src/unnamed/part_000) for an item
CreateDefault(dir, field) ==
  IF field = "description" THEN ""
  ELSE IF dir = "m2h" THEN (IF field = "status" THEN "new" ELSE "MEDIUM")
  ELSE (IF field = "status" THEN "New" ELSE "Medium")

\* the source record an op was decided for, as its platform holds it
OpRecord(n) == passes[ops[n].pass].src[ops[n].idx]

\* C24: Create defaults: when a Create is applied and the content, status or
\* priority of the source record is empty, the created record holds the
\* default of that field, on both destinations; a value that is not empty is
\* copied.
C24_CreateDefaults ==
  \A n \in 1..Len(ops) :
    (ops[n].op = "create" /\ ops[n].status = "ok") =>
      \A f \in Fields \ {"title"} :
        TargetField(OpDir(n), Target(OpDir(n), Now)[CreatedAt(n)], f) =
          OrElse(FieldOf(SourceApi(OpDir(n)), OpRecord(n), f), CreateDefault(OpDir(n), f))

\* C25: every started pass terminates: when every remote call is answered in
\* the end, with data or with an error, a one-direction pass that has started
\* reaches its end and the chain that runs it returns to idle: from a state
\* in which a chain is running, a state is reached in which no chain is
\* running and every pass started so far has ended.
C25_EveryPassTerminates ==
  (~AllIdle) ~> (AllIdle /\ \A p \in 1..Len(passes) : Ended(p))

\* a full pass has ended, with calls applied in both directions
C25_Witness ==
  /\ AllIdle
  /\ Len(passes) = 2 /\ passes[2].after = 1
  /\ Ended(1) /\ Ended(2)
  /\ \E n \in OpsOf(1) : ops[n].status = "ok"
  /\ \E n \in OpsOf(2) : ops[n].status = "ok"


(***************************** the plan of a pass **************************)
\* the decision and the field set the plan of pass p holds for source record
\* rec, the plan being computed from the two snapshots and the policy as they
\* are when the second fetch has returned
PlanDecision(p, rec) ==
  LET data == SourceData(passes[p].dir, rec)
  IN Decide(MapGet(passes[p].map, data.subject),
            UpdateData(passes[p].planRules, SourcePlatform(passes[p].dir), data))

PlanData(p, rec) ==
  LET data == SourceData(passes[p].dir, rec)
  IN IF MapGet(passes[p].map, data.subject) = 0 THEN data
     ELSE UpdateData(passes[p].planRules, SourcePlatform(passes[p].dir), data)

\* C26: the plan of a pass is computed before any remote mutation: every
\* decision of the pass, and the field set of every Update, is the one that
\* follows from the two snapshots and the policy as they were before the
\* first Create or Update of the pass.
C26_PlanBeforeMutation ==
  \A n \in 1..Len(ops) :
    /\ ops[n].op = PlanDecision(ops[n].pass, OpRecord(n))
    /\ ops[n].data = PlanData(ops[n].pass, OpRecord(n))

\* the summary entries of the log for direction dir
Summaries(dir) ==
  {e \in 1..Len(syncLog) : syncLog[e].message = CompleteMessage(dir)}

Succeeded(p, kind) == {n \in OpsOf(p) : ops[n].op = kind /\ ops[n].status = "ok"}

\* C27: pass summary counts: a completed pass has logged a summary whose
\* created count is the number of its Creates that succeeded and whose
\* updated count is the number of its Updates that succeeded, a Skip counting
\* for neither; a pass that aborted has logged no summary.
C27_SummaryCounts ==
  /\ \A p \in 1..Len(passes) :
       Completed(p) =>
         \E e \in Summaries(passes[p].dir) :
           /\ syncLog[e].type = "success"
           /\ syncLog[e].created = Cardinality(Succeeded(p, "create"))
           /\ syncLog[e].updated = Cardinality(Succeeded(p, "update"))
  /\ \A dir \in {"h2m", "m2h"} :
       Cardinality(Summaries(dir)) =
         Cardinality({p \in 1..Len(passes) : passes[p].dir = dir /\ Completed(p)})

\* a completed pass with one Create, one Skip and no Update, and an aborted
\* pass
C27_Witness ==
  /\ \E p \in 1..Len(passes) :
       /\ Completed(p)
       /\ Cardinality(Succeeded(p, "create")) = 1
       /\ Skips(p) # {}
       /\ Updates(p) = {}
  /\ \E p \in 1..Len(passes) : passes[p].outcome = "aborted"


(***************************** convergence *********************************)
KeysIn(platform, store) ==
  {FieldOf(platform, store[i], "title") : i \in 1..Len(store)}

\* C28: key-set convergence: after a full pass in which no remote call has
\* failed, every identity key that either platform held before the pass is
\* held by both platforms.
C28_KeySetConvergence ==
  FullPassDone =>
    \A k \in KeysIn("hubspot", before.hubspot) \cup KeysIn("monday", before.monday) :
      k \in KeysIn("hubspot", hubspot) /\ k \in KeysIn("monday", monday)

\* C29: BOTH convergence: after a full pass in which no call has failed, for
\* every identity key matched on both sides and every field whose policy is
\* both, the two platforms hold the same value, and it is the value HubSpot
\* held before the pass.
C29_BothConvergence ==
  FullPassDone =>
    \A i \in 1..Len(before.hubspot), j \in 1..Len(before.monday), f \in Fields :
      (Pair(before, i, j) /\ fieldRules[f] = "both") =>
        /\ FieldOf("hubspot", hubspot[i], f) = FieldOf("monday", monday[j], f)
        /\ FieldOf("hubspot", hubspot[i], f) = FieldOf("hubspot", before.hubspot[i], f)

\* the first two passes are the two directions of one full pass, completed
FullPassDoneFirst ==
  /\ Len(passes) >= 2
  /\ passes[1].kind = "full" /\ passes[2].after = 1
  /\ Completed(1) /\ Completed(2)

\* a pass later than the first full pass has been started
SecondPass == FullPassDoneFirst /\ Len(passes) >= 3

\* C30: full-pass fixpoint: a full pass started right after a full pass that
\* completed with no failure, with no external change in between, decides no
\* Create and changes no field on either platform.
C30_FullPassFixpoint ==
  /\ [](SecondPass => \A p \in 3..Len(passes) : Creates(p) = {})
  /\ [][SecondPass => (hubspot' = hubspot /\ monday' = monday)]_vars

\* the identity key of source record j of pass p
SourceKey(p, j) == SourceData(passes[p].dir, passes[p].src[j]).subject

\* source records j1 < j2 of pass p share a key that the target snapshot lacks
TwinsAbsent(p, j1, j2) ==
  /\ j1 < j2
  /\ SourceKey(p, j1) = SourceKey(p, j2)
  /\ MapGet(passes[p].map, SourceKey(p, j1)) = 0

\* C31: the target index is built once from the snapshot and never updated
\* during the pass: a record whose key is absent from the target snapshot is
\* decided Create whatever the pass has created before it, so two source
\* records of one pass that share such a key each produce their own Create
\* and a completed pass has created two target records with that key.
C31_IndexNeverUpdated ==
  \A p \in 1..Len(passes) :
    /\ \A n \in OpsOf(p) :
         MapGet(passes[p].map, ops[n].key) = 0 => ops[n].op = "create"
    /\ Completed(p) =>
         \A j1, j2 \in 1..Len(passes[p].src) :
           TwinsAbsent(p, j1, j2) =>
             /\ \E n1, n2 \in Succeeded(p, "create") :
                  ops[n1].idx = j1 /\ ops[n2].idx = j2
             /\ Cardinality({i \in 1..Len(Target(passes[p].dir, Now)) :
                    TargetKey(passes[p].dir, Target(passes[p].dir, Now)[i])
                      = SourceKey(p, j1)}) >= 2

C31_Witness ==
  \E p \in 1..Len(passes) :
    /\ Completed(p)
    /\ \E j1, j2 \in 1..Len(passes[p].src) : TwinsAbsent(p, j1, j2)

\* the fields pulled for the record of decision n under the policy that was in
\* force when its pass started
StartData(n) ==
  UpdateData(passes[ops[n].pass].startRules, SourcePlatform(OpDir(n)),
             SourceData(OpDir(n), OpRecord(n)))

\* C32: one policy per pass: every record of a pass that has a match in the
\* target is decided, and its Update field set chosen, under the field policy
\* in force when the pass started, whatever POST /rules is served while the
\* pass awaits a remote call.
C32_OnePolicyPerPass ==
  \A n \in 1..Len(ops) :
    ops[n].op # "create" =>
      /\ ops[n].op = Decide(ops[n].id, StartData(n))
      /\ ops[n].data = StartData(n)

\* chain t takes a step that no remote call fails in
StepsOn(t) ==
  /\ tasks[t].pc # "idle"
  /\ tasks'[t] # tasks[t]
  /\ passes'[tasks[t].pass].outcome # "aborted"

\* every source record of pass p has been decided, and applied unless skipped
AllApplied(p, history) ==
  \A j \in 1..Len(passes[p].src) :
    \E n \in 1..Len(history) :
      /\ history[n].pass = p /\ history[n].idx = j
      /\ history[n].status \in {"ok", "none"}

\* C33: the enabled flag is read only at the start of each direction: while
\* sync is disabled a running direction goes on, its pending call is applied
\* and it moves to its next record or completes with every record applied;
\* when HubSpot -> Monday of a full pass ends while sync is disabled, Monday ->
\* HubSpot returns at once: no pass starts, no log entry of it is written and
\* the chain is idle, so it makes no remote call.
C33_GateReadAtStart ==
  [][\A t \in TaskIds :
       /\ (StepsOn(t) /\ ~syncEnabled) =>
            /\ tasks[t].pc = "apply" => ops'[tasks[t].call].status = "ok"
            /\ \/ /\ passes'[tasks[t].pass].outcome = "running"
                  /\ tasks'[t].pass = tasks[t].pass
                  /\ tasks'[t].pc # "idle"
               \/ /\ passes'[tasks[t].pass].outcome = "complete"
                  /\ tasks[t].pc = "apply" => AllApplied(tasks[t].pass, ops')
       /\ (PassEnds(t) /\ ~syncEnabled) =>
            /\ tasks'[t] = IdleTask
            /\ Len(passes') = Len(passes)
            /\ \A e \in 1..Len(NewEntries) : NewEntries[e].message # StartMessage("m2h")
    ]_vars

\* a full pass whose first direction was disabled between its start and its
\* Create, has completed, and whose second direction has not started
C33_Witness ==
  /\ Len(passes) = 1 /\ passes[1].kind = "full" /\ Completed(1)
  /\ AllIdle /\ ~syncEnabled
  /\ \E s, d, c \in 1..Len(syncLog) :
       /\ syncLog[s].message = StartMessage("h2m")
       /\ syncLog[d].message = "Auto-sync disabled"
       /\ syncLog[c].message = CreatedMessage("h2m")
       /\ Newer(syncLog[d], syncLog[s]) /\ Newer(syncLog[c], syncLog[d])

\* C34: every update call that reaches Monday changes at least one column:
\* for every record that HubSpot -> Monday has updated, the column values sent
\* in change_multiple_column_values are not empty.
C34_MondayUpdateNonEmpty ==
  \A n \in 1..Len(ops) :
    (ops[n].op = "update" /\ OpDir(n) = "h2m" /\ ops[n].status = "ok") =>
      DOMAIN ops[n].payload # {}

\* the value Monday -> HubSpot uses for a field of the item of decision n: the
\* text of its column, or the default of the field when that text is empty
PushedValue(n, f) ==
  OrElse(FieldOf("monday", OpRecord(n), f), CreateDefault("m2h", f))

\* chain t gets the answer to an Update of a HubSpot ticket
UpdatesTicket(t) ==
  /\ tasks[t].pc = "apply" /\ tasks[t].dir = "m2h"
  /\ ops[tasks[t].call].op = "update"
  /\ ops'[tasks[t].call].status = "ok"

\* C35: Monday -> HubSpot never pushes an empty status or priority: the value
\* it sends for content, status or priority, in a Create and in an Update, is
\* the text of the item's column, or the default of the field ('' for
\* content, 'new' for status, 'MEDIUM' for priority) when that text is empty;
\* an Update the policy allows leaves the ticket holding that value.
C35_MondayDefaults ==
  /\ [](\A n \in 1..Len(ops) :
          (OpDir(n) = "m2h" /\ ops[n].op # "skip") =>
            \A f \in Fields \ {"title"} :
              PropertyOf(f) \in DOMAIN ops[n].payload =>
                /\ ops[n].payload[PropertyOf(f)] = PushedValue(n, f)
                /\ f # "description" => ops[n].payload[PropertyOf(f)] # "")
  /\ [][\A t \in TaskIds :
          UpdatesTicket(t) =>
            \A f \in FieldSet(tasks[t].call) \ {"title"} :
              hubspot'[ops[tasks[t].call].id][PropertyOf(f)] =
                PushedValue(tasks[t].call, f)
      ]_vars

\* an Update has put the default stage on a ticket whose item has no status
C35_Witness ==
  \E n \in 1..Len(ops) :
    /\ OpDir(n) = "m2h" /\ ops[n].op = "update" /\ ops[n].status = "ok"
    /\ "status" \in FieldSet(n)
    /\ FieldOf("monday", OpRecord(n), "status") = ""
    /\ hubspot[ops[n].id].hs_pipeline_stage = "new"

\* the callback of a webhook's timer runs
Expires == \E platform \in {"hubspot", "monday"} : timers'[platform] < timers[platform]

\* a webhook's timer is set
Schedules == \E platform \in {"hubspot", "monday"} : timers'[platform] > timers[platform]

WebhookMessages == {"HubSpot webhook received", "Monday.com webhook received"}

\* C36: a webhook-triggered pass re-checks the enabled flag when its delay
\* expires: a timer callback that runs while sync is disabled starts no pass,
\* so it makes no remote call, changes neither store and logs nothing; while
\* sync is disabled no request sets a timer or logs the receipt of a webhook.
C36_WebhookRechecksGate ==
  [][~syncEnabled =>
       /\ Expires =>
            /\ tasks' = tasks /\ passes' = passes /\ ops' = ops
            /\ hubspot' = hubspot /\ monday' = monday
            /\ syncLog' = syncLog
       /\ ~Schedules
       /\ \A e \in 1..Len(NewEntries) : NewEntries[e].message \notin WebhookMessages
    ]_vars

\* a webhook was received, sync was disabled after it, and the timer has
\* expired since without a pass
C36_Witness ==
  /\ ~syncEnabled /\ NoTimers /\ passes = <<>>
  /\ syncLog[1].message = "Auto-sync disabled"
  /\ \E e \in 2..Len(syncLog) : syncLog[e].message \in WebhookMessages

(***************************** the earlier version of the server ***********)
\* src/unnamed/part_000: the loop bodies of its two directions
Part000TicketData(ticket) ==
  [subject |-> ticket.subject, content |-> ticket.content,
   status |-> ticket.hs_pipeline_stage, priority |-> ticket.hs_ticket_priority]

\* the columns are found by the ids 'text', 'status' and 'priority'
Part000ItemData(item) ==
  [subject |-> item.name,
   content |-> OrElse(ColText(item, "text"), ""),
   status |-> OrElse(ColText(item, "status"), "new"),
   priority |-> OrElse(ColText(item, "priority"), "MEDIUM")]

Part000UpdateData(rules, platform, data) ==
  LET u1 == IF rules.title = platform \/ rules.title = "both"
            THEN Put(EmptyMap, "subject", data.subject) ELSE EmptyMap
      u2 == IF rules.description = platform \/ rules.description = "both"
            THEN Put(u1, "content", data.content) ELSE u1
      u3 == IF rules.status = platform \/ rules.status = "both"
            THEN Put(u2, "status", data.status) ELSE u2
      u4 == IF rules.priority = platform \/ rules.priority = "both"
            THEN Put(u3, "priority", data.priority) ELSE u3
  IN u4

\* mondayMap / hubspotMap of the earlier version
Part000Map(dir, target) ==
  BuildMap([j \in 1..Len(target) |->
              IF dir = "h2m" THEN target[j].name ELSE target[j].subject])

\* what the earlier version decides for source record rec of direction dir
\* against the target snapshot, and the data it passes to the call
Part000Decision(dir, rules, rec, target) ==
  LET data == IF dir = "h2m" THEN Part000TicketData(rec) ELSE Part000ItemData(rec)
      existing == MapGet(Part000Map(dir, target), data.subject)
      updateData == Part000UpdateData(rules, IF dir = "h2m" THEN "hubspot" ELSE "monday", data)
  IN IF existing = 0 THEN [op |-> "create", data |-> data]
     ELSE IF DOMAIN updateData # {} THEN [op |-> "update", data |-> updateData]
     ELSE [op |-> "skip", data |-> updateData]

\* C37: the two source files agree on decisions: with the default field
\* mapping, for every record of the first pass over two stores, src/server.js
\* decides Create, Update or Skip, and picks the Update field set and values,
\* as src/unnamed/part_000 does for the same record, snapshots and policy.
C37_VersionsAgree ==
  \A n \in 1..Len(ops) :
    ops[n].pass = 1 =>
      LET d == Part000Decision(OpDir(n), fieldRules, Source(OpDir(n), before)[ops[n].idx],
                               Target(OpDir(n), before))
      IN ops[n].op = d.op /\ ops[n].data = d.data

\* a first pass from Monday has updated a ticket and created another
C37_Witness ==
  /\ Len(passes) = 1 /\ passes[1].dir = "m2h" /\ Completed(1)
  /\ Succeeded(1, "update") # {} /\ Succeeded(1, "create") # {}
=========================================================================
